---- MODULE Spec2Model ----
(***************************************************************************)
(* Mergington High School activities API (src/src/app.py).                 *)
(*                                                                         *)
(* The state is the module-level dict `activities`; the operations are the *)
(* two mutating route handlers, signup_for_activity and                    *)
(* remove_from_activity.  Each handler is a pure operator from the catalog *)
(* and the request to the response and the new catalog; the actions apply  *)
(* the operators to requests drawn from small sets and record the response *)
(* of the last request in `last`.  Requests served concurrently by the     *)
(* worker threads of the server are in `reqs`, each at the line of its     *)
(* handler it has reached.                                                 *)
(***************************************************************************)
EXTENDS Integers, Sequences, FiniteSets, TLC

VARIABLES activities, last, reqs

vars == <<activities, last, reqs>>

----------------------------------------------------------------------------
(* The data of the module: app.py lines 23-98.                             *)

\* Key order of the dict literal `activities` (a dict iterates in insertion
\* order, and no handler inserts or deletes a key).
CatalogOrder ==
    << "Chess Club", "Programming Class", "Gym Class", "Soccer Team",
       "Swimming Club", "Art Club", "Drama Club", "Debate Team",
       "Science Olympiad", "Book Club" >>

\* Defect variant of activity_categories: the entry of the activity added
\* last to the catalog is missing.
activity_categories_NoBookClub ==
    [ n \in { "Chess Club", "Programming Class", "Gym Class", "Soccer Team",
              "Swimming Club", "Art Club", "Drama Club", "Debate Team",
              "Science Olympiad" } |->
        CASE n = "Chess Club"        -> "Sports"
          [] n = "Programming Class" -> "STEM"
          [] n = "Gym Class"         -> "Sports"
          [] n = "Soccer Team"       -> "Sports"
          [] n = "Swimming Club"     -> "Sports"
          [] n = "Art Club"          -> "Arts"
          [] n = "Drama Club"        -> "Arts"
          [] n = "Debate Team"       -> "Academic"
          [] n = "Science Olympiad"  -> "STEM" ]

activity_categories ==
    [ n \in { "Chess Club", "Programming Class", "Gym Class", "Soccer Team",
              "Swimming Club", "Art Club", "Drama Club", "Debate Team",
              "Science Olympiad", "Book Club" } |->
        CASE n = "Chess Club"        -> "Sports"
          [] n = "Programming Class" -> "STEM"
          [] n = "Gym Class"         -> "Sports"
          [] n = "Soccer Team"       -> "Sports"
          [] n = "Swimming Club"     -> "Sports"
          [] n = "Art Club"          -> "Arts"
          [] n = "Drama Club"        -> "Arts"
          [] n = "Debate Team"       -> "Academic"
          [] n = "Science Olympiad"  -> "STEM"
          [] n = "Book Club"         -> "Arts" ]

SeedActivities ==
    [ n \in { CatalogOrder[i] : i \in 1..Len(CatalogOrder) } |->
        CASE n = "Chess Club" ->
               [ description |-> "Learn strategies and compete in chess tournaments",
                 schedule |-> "Fridays, 3:30 PM - 5:00 PM",
                 max_participants |-> 12,
                 participants |-> << "michael@mergington.edu", "daniel@mergington.edu" >> ]
          [] n = "Programming Class" ->
               [ description |-> "Learn programming fundamentals and build software projects",
                 schedule |-> "Tuesdays and Thursdays, 3:30 PM - 4:30 PM",
                 max_participants |-> 20,
                 participants |-> << "emma@mergington.edu", "sophia@mergington.edu" >> ]
          [] n = "Gym Class" ->
               [ description |-> "Physical education and sports activities",
                 schedule |-> "Mondays, Wednesdays, Fridays, 2:00 PM - 3:00 PM",
                 max_participants |-> 30,
                 participants |-> << "john@mergington.edu", "olivia@mergington.edu" >> ]
          [] n = "Soccer Team" ->
               [ description |-> "Join the varsity soccer team and compete against other schools",
                 schedule |-> "Mondays and Wednesdays, 4:00 PM - 6:00 PM",
                 max_participants |-> 25,
                 participants |-> << "lucas@mergington.edu", "mia@mergington.edu" >> ]
          [] n = "Swimming Club" ->
               [ description |-> "Practice swimming techniques and compete in swim meets",
                 schedule |-> "Tuesdays and Thursdays, 4:00 PM - 5:30 PM",
                 max_participants |-> 15,
                 participants |-> << "ethan@mergington.edu", "ava@mergington.edu" >> ]
          [] n = "Art Club" ->
               [ description |-> "Explore various art mediums including painting, drawing, and sculpture",
                 schedule |-> "Thursdays, 3:30 PM - 5:00 PM",
                 max_participants |-> 18,
                 participants |-> << "lily@mergington.edu", "noah@mergington.edu" >> ]
          [] n = "Drama Club" ->
               [ description |-> "Participate in theater productions and improve acting skills",
                 schedule |-> "Wednesdays and Fridays, 3:30 PM - 5:30 PM",
                 max_participants |-> 22,
                 participants |-> << "isabella@mergington.edu", "james@mergington.edu" >> ]
          [] n = "Debate Team" ->
               [ description |-> "Develop critical thinking and public speaking through competitive debates",
                 schedule |-> "Tuesdays, 4:00 PM - 5:30 PM",
                 max_participants |-> 16,
                 participants |-> << "alexander@mergington.edu", "charlotte@mergington.edu" >> ]
          [] n = "Science Olympiad" ->
               [ description |-> "Compete in science and engineering challenges at regional competitions",
                 schedule |-> "Mondays and Thursdays, 3:30 PM - 5:00 PM",
                 max_participants |-> 20,
                 participants |-> << "william@mergington.edu", "amelia@mergington.edu" >> ]
          [] n = "Book Club" ->
               [ description |-> "Read and discuss classic and contemporary literature",
                 schedule |-> "Fridays, 3:00 PM - 4:30 PM",
                 max_participants |-> 15,
                 participants |-> << >> ] ]

----------------------------------------------------------------------------
(* Python list primitives used by the handlers.                            *)

\* `x in lst`
Contains(lst, x) == \E i \in 1..Len(lst) : lst[i] = x

\* Defect variant of ListAppend: `lst.insert(0, x)`.
ListAppend_Prepend(lst, x) == << x >> \o lst

\* Defect variant of ListAppend: the email is added as to a set, only when
\* the list does not hold it.
ListAppend_IfAbsent(lst, x) ==
    IF \E i \in 1..Len(lst) : lst[i] = x THEN lst ELSE Append(lst, x)

\* `lst.append(x)`
ListAppend(lst, x) == Append(lst, x)

\* Index of the first occurrence of x in lst (0 when there is none).
FirstIndex(lst, x) ==
    IF Contains(lst, x)
    THEN CHOOSE i \in 1..Len(lst) :
            lst[i] = x /\ \A j \in 1..(i - 1) : lst[j] # x
    ELSE 0

\* Defect variant of ListRemove: `lst.pop(0)`, the first element whatever
\* it is.
ListRemove_PopFirst(lst, x) == Tail(lst)

\* Defect variant of ListRemove: the occurrence is overwritten by the last
\* element, which is then popped (removal that does not keep the order).
ListRemove_SwapLast(lst, x) ==
    LET k == FirstIndex(lst, x)
    IN  [ i \in 1..(Len(lst) - 1) |-> IF i = k THEN lst[Len(lst)] ELSE lst[i] ]

\* `lst.remove(x)` for x in lst: deletes the first occurrence, keeps the
\* order of the rest.
ListRemove(lst, x) ==
    LET k == FirstIndex(lst, x)
    IN  [ i \in 1..(Len(lst) - 1) |-> IF i < k THEN lst[i] ELSE lst[i + 1] ]

----------------------------------------------------------------------------
(* The handlers.                                                           *)

\* The enrollment limit written into line 136 (`>= 3`).
MaxEnrolled == 3

\* get_student_activities(email): the names of the activities whose
\* participants contain email, in catalog iteration order.
get_student_activities(acts, email) ==
    SelectSeq(CatalogOrder,
              LAMBDA n : n \in DOMAIN acts /\ Contains(acts[n].participants, email))

\* A response: the HTTP status, the key of the JSON body ("detail" for a
\* raised HTTPException, "message" for a returned dict), the text of that
\* field as the fragments the f-string joins, and the catalog afterwards.
Response(status, key, text, acts) ==
    [ status |-> status, key |-> key, text |-> text, activities |-> acts ]

\* Defect variant of ActivityNotFound: the wrong status code.
ActivityNotFound_BadRequest(acts) ==
    Response(400, "detail", << "Activity not found" >>, acts)

\* raise HTTPException(status_code=404, detail="Activity not found")
ActivityNotFound(acts) ==
    Response(404, "detail", << "Activity not found" >>, acts)

\* Defect variant of AlreadySignedUp: `email in activity` tests the keys of
\* the activity's dict, which never hold an email.
AlreadySignedUp_Never(activity, email) == email \in DOMAIN activity

\* `email in activity["participants"]` of line 131
AlreadySignedUp(activity, email) == Contains(activity.participants, email)

\* Defect variant of LimitReached: `>` for `>=`.
LimitReached_OffByOne(enrolled_activities) ==
    Len(enrolled_activities) > MaxEnrolled

\* `len(enrolled_activities) >= 3`
LimitReached(enrolled_activities) == Len(enrolled_activities) >= MaxEnrolled

\* Defect variant of FirstSameCategory: only the first enrolled activity is
\* compared (a `break` or `return` at the end of the loop body).
FirstSameCategory_FirstOnly(enrolled_activities, new_category) ==
    IF /\ Len(enrolled_activities) > 0
       /\ activity_categories[enrolled_activities[1]] = new_category
    THEN 1
    ELSE 0

\* Defect variant of FirstSameCategory: on a match the report names
\* enrolled_activities[0] instead of the loop variable.
FirstSameCategory_ReportsFirstEnrolled(enrolled_activities, new_category) ==
    IF \E i \in 1..Len(enrolled_activities) :
          activity_categories[enrolled_activities[i]] = new_category
    THEN 1
    ELSE 0

\* The first enrolled activity, in the order of enrolled_activities, whose
\* category equals new_category (0 when there is none): the loop of lines
\* 144-150 raises at the first match.
FirstSameCategory(enrolled_activities, new_category) ==
    IF \E i \in 1..Len(enrolled_activities) :
          activity_categories[enrolled_activities[i]] = new_category
    THEN CHOOSE i \in 1..Len(enrolled_activities) :
            /\ activity_categories[enrolled_activities[i]] = new_category
            /\ \A j \in 1..(i - 1) :
                  activity_categories[enrolled_activities[j]] # new_category
    ELSE 0

\* A lookup in activity_categories of a name that is no key of it raises
\* KeyError in line 143 or 145.
CategoryKeyError(enrolled_activities, activity_name) ==
    \/ activity_name \notin DOMAIN activity_categories
    \/ \E i \in 1..Len(enrolled_activities) :
          enrolled_activities[i] \notin DOMAIN activity_categories

\* Defect variant of signup_for_activity: no validation past the lookup of
\* the activity.
signup_for_activity_Unvalidated(acts, activity_name, email) ==
    IF activity_name \notin DOMAIN acts
    THEN ActivityNotFound(acts)
    ELSE Response(200, "message",
                  << "Signed up ", email, " for ", activity_name >>,
                  [ acts EXCEPT ![activity_name].participants =
                        ListAppend(acts[activity_name].participants, email) ])

\* Defect variant of signup_for_activity: the category check comes before
\* the enrollment limit.
signup_for_activity_CategoryFirst(acts, activity_name, email) ==
    IF activity_name \notin DOMAIN acts
    THEN ActivityNotFound(acts)
    ELSE
    LET activity == acts[activity_name] IN
    IF AlreadySignedUp(activity, email)
    THEN Response(400, "detail",
                  << "Student already signed up for this activity" >>, acts)
    ELSE
    LET enrolled_activities == get_student_activities(acts, email)
        new_category == activity_categories[activity_name]
        k == FirstSameCategory(enrolled_activities, new_category)
    IN
    IF k # 0
    THEN Response(400, "detail",
                  << "Student is already enrolled in '", enrolled_activities[k],
                     "' which is in the same category (", new_category,
                     "). Cannot enroll in multiple programs of the same type." >>,
                  acts)
    ELSE
    IF LimitReached(enrolled_activities)
    THEN Response(400, "detail",
                  << "Student is already enrolled in 3 activities. Cannot enroll in more than 3 programs." >>,
                  acts)
    ELSE Response(200, "message",
                  << "Signed up ", email, " for ", activity_name >>,
                  [ acts EXCEPT ![activity_name].participants =
                        ListAppend(activity.participants, email) ])

signup_for_activity(acts, activity_name, email) ==
    IF activity_name \notin DOMAIN acts
    THEN ActivityNotFound(acts)
    ELSE
    LET activity == acts[activity_name] IN
    IF AlreadySignedUp(activity, email)
    THEN Response(400, "detail",
                  << "Student already signed up for this activity" >>, acts)
    ELSE
    LET enrolled_activities == get_student_activities(acts, email) IN
    IF LimitReached(enrolled_activities)
    THEN Response(400, "detail",
                  << "Student is already enrolled in 3 activities. Cannot enroll in more than 3 programs." >>,
                  acts)
    ELSE
    IF CategoryKeyError(enrolled_activities, activity_name)
    THEN \* an unhandled exception, answered 500 by the framework
         Response(500, "detail", << "Internal Server Error" >>, acts)
    ELSE
    LET new_category == activity_categories[activity_name]
        k == FirstSameCategory(enrolled_activities, new_category)
    IN
    IF k # 0
    THEN Response(400, "detail",
                  << "Student is already enrolled in '", enrolled_activities[k],
                     "' which is in the same category (", new_category,
                     "). Cannot enroll in multiple programs of the same type." >>,
                  acts)
    ELSE Response(200, "message",
                  << "Signed up ", email, " for ", activity_name >>,
                  [ acts EXCEPT ![activity_name].participants =
                        ListAppend(activity.participants, email) ])

\* Defect variant of remove_from_activity: removing an email that is not
\* signed up is answered as a success.
remove_from_activity_Lenient(acts, activity_name, email) ==
    IF activity_name \notin DOMAIN acts
    THEN ActivityNotFound(acts)
    ELSE
    LET activity == acts[activity_name] IN
    IF ~Contains(activity.participants, email)
    THEN Response(200, "message",
                  << "Removed ", email, " from ", activity_name >>, acts)
    ELSE Response(200, "message",
                  << "Removed ", email, " from ", activity_name >>,
                  [ acts EXCEPT ![activity_name].participants =
                        ListRemove(activity.participants, email) ])

\* Defect variant of remove_from_activity: the email is removed from a copy
\* of the list (`list(activity["participants"]).remove(email)`).
remove_from_activity_OnCopy(acts, activity_name, email) ==
    IF activity_name \notin DOMAIN acts
    THEN ActivityNotFound(acts)
    ELSE
    LET activity == acts[activity_name] IN
    IF ~Contains(activity.participants, email)
    THEN Response(400, "detail",
                  << "Student is not signed up for this activity" >>, acts)
    ELSE Response(200, "message",
                  << "Removed ", email, " from ", activity_name >>, acts)

remove_from_activity(acts, activity_name, email) ==
    IF activity_name \notin DOMAIN acts
    THEN ActivityNotFound(acts)
    ELSE
    LET activity == acts[activity_name] IN
    IF ~Contains(activity.participants, email)
    THEN Response(400, "detail",
                  << "Student is not signed up for this activity" >>, acts)
    ELSE Response(200, "message",
                  << "Removed ", email, " from ", activity_name >>,
                  [ acts EXCEPT ![activity_name].participants =
                        ListRemove(activity.participants, email) ])

----------------------------------------------------------------------------
(* Requests.                                                               *)

\* Emails that send requests: a student new to the school and a student of
\* the seed data (first participant of Chess Club).
Emails == { "test@mergington.edu", "michael@mergington.edu" }

\* A name that is no catalog key.
UnknownActivity == "Nonexistent Club"

\* The catalog activities that requests name, in the order they are added
\* to the request alphabet: the first six cover the four categories, two of
\* them twice.
RequestOrder ==
    << "Book Club", "Chess Club", "Art Club", "Soccer Team",
       "Programming Class", "Debate Team", "Gym Class", "Drama Club",
       "Science Olympiad", "Swimming Club" >>

NumRequestNames == 6

RequestNames ==
    { RequestOrder[i] : i \in 1..NumRequestNames } \cup { UnknownActivity }

\* The path of a request, as its segments: /activities,
\* /activities/{activity_name}/signup, /activities/{activity_name}/remove.
RequestPath(op, activity_name) ==
    IF op = "get_activities"
    THEN << "activities" >>
    ELSE << "activities", activity_name, op >>

\* add_cache_control_headers: the headers of the response that call_next
\* returned, with the three cache headers set when the path starts with
\* /static/ or /activities.  Headers are a set of <<name, value>> pairs.
add_cache_control_headers(path, headers) ==
    IF path[1] = "static" \/ path[1] = "activities"
    THEN { h \in headers : h[1] \notin { "Cache-Control", "Pragma", "Expires" } }
         \cup { << "Cache-Control", "no-cache, no-store, must-revalidate" >>,
                << "Pragma", "no-cache" >>,
                << "Expires", "0" >> }
    ELSE headers

\* Whether @app.middleware("http") of line 175 has run.  The decorated
\* function is written in the body of remove_from_activity, after the
\* return of line 173, so the decorator is never executed and the
\* application has no middleware.
MiddlewareRegistered == FALSE

\* The headers the handlers themselves set that matter here: none.
ResponseHeaders(path) ==
    IF MiddlewareRegistered
    THEN add_cache_control_headers(path, {})
    ELSE {}

\* The request last served and its response.
Served(op, activity_name, email, r) ==
    [ op |-> op, activity_name |-> activity_name, email |-> email,
      status |-> r.status, key |-> r.key, text |-> r.text,
      path |-> RequestPath(op, activity_name),
      headers |-> ResponseHeaders(RequestPath(op, activity_name)) ]

\* The worker threads that run the handlers (plain `def` handlers are run
\* in the server's thread pool), two of them.
Threads == { "t1", "t2" }

\* A thread that has served nothing yet.
NoRequest ==
    [ op |-> "none", activity_name |-> "", email |-> "", pc |-> "idle",
      status |-> 0, text |-> << >> ]

Init ==
    /\ activities = SeedActivities
    /\ reqs = [ t \in Threads |-> NoRequest ]
    /\ last = [ op |-> "none", activity_name |-> "", email |-> "",
                status |-> 0, key |-> "", text |-> << >>,
                path |-> << >>, headers |-> {} ]

\* GET /activities: the whole catalog is the body of the response.
GetActivities ==
    /\ activities' = activities
    /\ last' = Served("get_activities", "", "",
                      Response(200, "", << >>, activities))
    /\ UNCHANGED reqs

\* POST /activities/{activity_name}/signup?email={email}
Signup(activity_name, email) ==
    LET r == signup_for_activity(activities, activity_name, email)
    IN  /\ activities' = r.activities
        /\ last' = Served("signup", activity_name, email, r)
        /\ UNCHANGED reqs

\* DELETE /activities/{activity_name}/remove?email={email}
Remove(activity_name, email) ==
    LET r == remove_from_activity(activities, activity_name, email)
    IN  /\ activities' = r.activities
        /\ last' = Served("remove", activity_name, email, r)
        /\ UNCHANGED reqs

SignupRequest == \E a \in RequestNames, e \in Emails : Signup(a, e)

RemoveRequest == \E a \in RequestNames, e \in Emails : Remove(a, e)

Next == SignupRequest \/ RemoveRequest \/ GetActivities

Spec == Init /\ [][Next]_vars

----------------------------------------------------------------------------
(* A class enrolling in one activity: the students of ClassRoster queue up *)
(* for ClassActivity, and a student is served only while no student behind *)
(* them in the queue is enrolled.  The roster has one student more than    *)
(* the seed data leaves room for in ClassActivity.                         *)

ClassActivity == "Chess Club"

ClassRoster ==
    << "student01@mergington.edu", "student02@mergington.edu",
       "student03@mergington.edu", "student04@mergington.edu",
       "student05@mergington.edu", "student06@mergington.edu",
       "student07@mergington.edu", "student08@mergington.edu",
       "student09@mergington.edu", "student10@mergington.edu",
       "student11@mergington.edu" >>

AtHeadOfQueue(i) ==
    \A j \in (i + 1)..Len(ClassRoster) :
        ~Contains(activities[ClassActivity].participants, ClassRoster[j])

ClassSignup ==
    \E i \in 1..Len(ClassRoster) :
        AtHeadOfQueue(i) /\ Signup(ClassActivity, ClassRoster[i])

ClassRemove ==
    \E i \in 1..Len(ClassRoster) :
        AtHeadOfQueue(i) /\ Remove(ClassActivity, ClassRoster[i])

NextClass == ClassSignup \/ ClassRemove

SpecClass == Init /\ [][NextClass]_vars

----------------------------------------------------------------------------
(* Concurrent requests.  Nothing synchronizes the handlers: a thread runs   *)
(* its handler in steps, and the steps of the two threads interleave.  A   *)
(* step is a stretch of the handler that reads or writes the catalog once: *)
(*   signup: lines 124-132 (lookup and membership check),                  *)
(*           lines 134-150 (scan of the enrollments, limit and category),  *)
(*           lines 152-154 (append);                                       *)
(*   remove: lines 160-169 (lookup and membership check),                  *)
(*           lines 171-173 (list.remove).                                  *)

\* The answer of a step that raised nothing: the handler goes on.
Continue(acts) == Response(0, "", << >>, acts)

\* signup_for_activity, lines 124-132
SignupCheck(acts, activity_name, email) ==
    IF activity_name \notin DOMAIN acts
    THEN ActivityNotFound(acts)
    ELSE IF AlreadySignedUp(acts[activity_name], email)
    THEN Response(400, "detail",
                  << "Student already signed up for this activity" >>, acts)
    ELSE Continue(acts)

\* signup_for_activity, lines 134-150
SignupScan(acts, activity_name, email) ==
    LET enrolled_activities == get_student_activities(acts, email) IN
    IF LimitReached(enrolled_activities)
    THEN Response(400, "detail",
                  << "Student is already enrolled in 3 activities. Cannot enroll in more than 3 programs." >>,
                  acts)
    ELSE
    IF CategoryKeyError(enrolled_activities, activity_name)
    THEN Response(500, "", << "Internal Server Error" >>, acts)
    ELSE
    LET new_category == activity_categories[activity_name]
        k == FirstSameCategory(enrolled_activities, new_category)
    IN
    IF k # 0
    THEN Response(400, "detail",
                  << "Student is already enrolled in '", enrolled_activities[k],
                     "' which is in the same category (", new_category,
                     "). Cannot enroll in multiple programs of the same type." >>,
                  acts)
    ELSE Continue(acts)

\* Variant of SignupAppend: the enrollments are scanned and the limit and
\* category checks run again in the step that appends.
SignupAppend_Revalidated(acts, activity_name, email) ==
    LET r == SignupScan(acts, activity_name, email)
    IN  IF r.status # 0
        THEN r
        ELSE Response(200, "message",
                      << "Signed up ", email, " for ", activity_name >>,
                      [ acts EXCEPT ![activity_name].participants =
                            ListAppend(acts[activity_name].participants, email) ])

\* signup_for_activity, lines 152-154
SignupAppend(acts, activity_name, email) ==
    Response(200, "message",
             << "Signed up ", email, " for ", activity_name >>,
             [ acts EXCEPT ![activity_name].participants =
                   ListAppend(acts[activity_name].participants, email) ])

\* remove_from_activity, lines 160-169
RemoveCheck(acts, activity_name, email) ==
    IF activity_name \notin DOMAIN acts
    THEN ActivityNotFound(acts)
    ELSE IF ~Contains(acts[activity_name].participants, email)
    THEN Response(400, "detail",
                  << "Student is not signed up for this activity" >>, acts)
    ELSE Continue(acts)

\* remove_from_activity, lines 171-173.  list.remove(x) raises ValueError
\* when x is not in the list; nothing catches it, and the server answers
\* an unhandled exception with 500 Internal Server Error.
RemoveDelete(acts, activity_name, email) ==
    IF ~Contains(acts[activity_name].participants, email)
    THEN Response(500, "", << "Internal Server Error" >>, acts)
    ELSE Response(200, "message",
                  << "Removed ", email, " from ", activity_name >>,
                  [ acts EXCEPT ![activity_name].participants =
                        ListRemove(acts[activity_name].participants, email) ])

\* The requests the threads serve: one email, four catalog activities of
\* three categories (two of them Sports) and the unknown name.
ThreadEmails == { "test@mergington.edu" }

ThreadNames ==
    { "Chess Club", "Soccer Team", "Programming Class", "Debate Team",
      UnknownActivity }

\* The thread is in its handler, about to run the step pc.
Running(op, activity_name, email, pc) ==
    [ op |-> op, activity_name |-> activity_name, email |-> email, pc |-> pc,
      status |-> 0, text |-> << >> ]

\* The thread has answered its request.
Answered(op, activity_name, email, r) ==
    [ op |-> op, activity_name |-> activity_name, email |-> email,
      pc |-> "idle", status |-> r.status, text |-> r.text ]

\* A thread takes a signup request and runs lines 124-132.
BeginSignup(t) ==
    \E a \in ThreadNames, e \in ThreadEmails :
        LET r == SignupCheck(activities, a, e)
        IN  /\ reqs[t].pc = "idle"
            /\ reqs' = [ reqs EXCEPT ![t] =
                           IF r.status = 0
                           THEN Running("signup", a, e, "scan")
                           ELSE Answered("signup", a, e, r) ]
            /\ UNCHANGED << activities, last >>

\* Lines 134-150.
ScanStep(t) ==
    LET q == reqs[t]
        r == SignupScan(activities, q.activity_name, q.email)
    IN  /\ q.pc = "scan"
        /\ reqs' = [ reqs EXCEPT ![t] =
                       IF r.status = 0
                       THEN Running("signup", q.activity_name, q.email, "append")
                       ELSE Answered("signup", q.activity_name, q.email, r) ]
        /\ UNCHANGED << activities, last >>

\* Lines 152-154.
AppendStep(t) ==
    LET q == reqs[t]
        r == SignupAppend(activities, q.activity_name, q.email)
    IN  /\ q.pc = "append"
        /\ activities' = r.activities
        /\ reqs' = [ reqs EXCEPT ![t] =
                       Answered("signup", q.activity_name, q.email, r) ]
        /\ UNCHANGED last

\* A thread takes a remove request and runs lines 160-169.
BeginRemove(t) ==
    \E a \in ThreadNames, e \in ThreadEmails :
        LET r == RemoveCheck(activities, a, e)
        IN  /\ reqs[t].pc = "idle"
            /\ reqs' = [ reqs EXCEPT ![t] =
                           IF r.status = 0
                           THEN Running("remove", a, e, "remove")
                           ELSE Answered("remove", a, e, r) ]
            /\ UNCHANGED << activities, last >>

\* Lines 171-173.
DeleteStep(t) ==
    LET q == reqs[t]
        r == RemoveDelete(activities, q.activity_name, q.email)
    IN  /\ q.pc = "remove"
        /\ activities' = r.activities
        /\ reqs' = [ reqs EXCEPT ![t] =
                       Answered("remove", q.activity_name, q.email, r) ]
        /\ UNCHANGED last

NextThreads ==
    \E t \in Threads :
        \/ BeginSignup(t)
        \/ ScanStep(t)
        \/ AppendStep(t)
        \/ BeginRemove(t)
        \/ DeleteStep(t)

SpecThreads == Init /\ [][NextThreads]_vars

----------------------------------------------------------------------------
(* Vocabulary of the properties, stated on the catalog alone.              *)

\* The emails the properties are evaluated for: the requesting emails.
CheckedEmails == Emails

CatalogNames == DOMAIN activities

IsParticipant(n, e) ==
    \E i \in 1..Len(activities[n].participants) :
        activities[n].participants[i] = e

EnrolledIn(e) == { n \in CatalogNames : IsParticipant(n, e) }

LimitText ==
    << "Student is already enrolled in 3 activities. Cannot enroll in more than 3 programs." >>

DuplicateText == << "Student already signed up for this activity" >>

NotSignedUpText == << "Student is not signed up for this activity" >>

NotFoundText == << "Activity not found" >>

IsCategoryConflictText(text) ==
    /\ Len(text) = 5
    /\ text[1] = "Student is already enrolled in '"
    /\ text[3] = "' which is in the same category ("
    /\ text[5] = "). Cannot enroll in multiple programs of the same type."

----------------------------------------------------------------------------
(* C1 *)

\* C1 as written: no email is a participant of more than 3 activities, and
\* a signup, to whatever activity name, by an email enrolled in 3 or more
\* activities is answered 400 and leaves the catalog as it was.
C1_MaxConcurrent_AnyName ==
    \A e \in CheckedEmails :
      LET count == Cardinality(EnrolledIn(e)) IN
        /\ count <= 3
        /\ count >= 3 =>
              \A a \in CatalogNames \cup { UnknownActivity } :
                  LET r == signup_for_activity(activities, a, e)
                  IN  r.status = 400 /\ r.activities = activities

\* C1 (amended): no email is a participant of more than 3 activities; a
\* signup to a catalog activity by an email enrolled in 3 or more activities
\* is answered 400, a signup to a name that is no catalog key is answered
\* 404, and both leave the catalog as it was.
C1_MaxConcurrent ==
    \A e \in CheckedEmails :
      LET count == Cardinality(EnrolledIn(e)) IN
        /\ count <= 3
        /\ count >= 3 =>
              \A a \in CatalogNames \cup { UnknownActivity } :
                  LET r == signup_for_activity(activities, a, e)
                  IN  /\ r.status = IF a \in CatalogNames THEN 400 ELSE 404
                      /\ r.activities = activities

\* An email enrolled in 3 activities has just been refused a fourth.
C1_Witness ==
    /\ last.op = "signup"
    /\ last.status = 400
    /\ last.text = LimitText
    /\ Cardinality(EnrolledIn(last.email)) = 3

----------------------------------------------------------------------------
(* C2 *)

----------------------------------------------------------------------------
(* C3 *)

\* C3: no participant list holds the same email at two positions.
C3_UniqueParticipants ==
    \A n \in CatalogNames :
        \A i, j \in 1..Len(activities[n].participants) :
            i # j => activities[n].participants[i] # activities[n].participants[j]

\* Both requesting emails have joined an activity that has two seed
\* participants: the signup of the second has just made the list four long.
C3_Witness ==
    /\ last.op = "signup"
    /\ last.status = 200
    /\ Len(activities[last.activity_name].participants) = 4
    /\ activities[last.activity_name].participants[4] = last.email

----------------------------------------------------------------------------
(* C4 *)

\* C4: every activity has len(participants) <= max_participants.
C4_Capacity ==
    \A n \in CatalogNames :
        Len(activities[n].participants) <= activities[n].max_participants

----------------------------------------------------------------------------
(* C5 *)

\* The email of test_multiple_signups_different_activities stands for any
\* email that is in no seed list.
NewStudent == "test@mergington.edu"

\* C5: an email enrolled in no activity that signs up for Book Club, then
\* Chess Club, then Art Club is answered 200 each time and is afterwards a
\* participant of all three.  Stated on the third step: when the email is
\* in Book Club, its signup for Chess Club has just been answered 200 (so
\* that it is in exactly these two activities) and its signup for Art Club
\* is served next, the answer is 200 and the email is in all three.
C5_ThreeSignupsSucceed ==
    [][ ( /\ last.op = "signup"
          /\ last.email = NewStudent
          /\ last.activity_name = "Chess Club"
          /\ last.status = 200
          /\ EnrolledIn(NewStudent) = { "Book Club", "Chess Club" }
          /\ last'.op = "signup"
          /\ last'.email = NewStudent
          /\ last'.activity_name = "Art Club" )
        => /\ last'.status = 200
           /\ \A n \in { "Book Club", "Chess Club", "Art Club" } :
                 \E i \in 1..Len(activities'[n].participants) :
                     activities'[n].participants[i] = NewStudent ]_vars

----------------------------------------------------------------------------
(* C6 *)

\* C6: for every catalog activity A and email e, when signup(A, e) succeeds
\* the same signup repeated at once is answered 400 "Student already signed
\* up for this activity"; and whenever e is in A's participants, signup(A, e)
\* is answered that 400 and leaves the whole catalog unchanged.
C6_DuplicateSignup ==
    \A a \in CatalogNames, e \in CheckedEmails :
        LET first == signup_for_activity(activities, a, e)
            second == signup_for_activity(first.activities, a, e)
        IN  /\ first.status = 200 =>
                  /\ second.status = 400
                  /\ second.key = "detail"
                  /\ second.text = DuplicateText
                  /\ second.activities = first.activities
            /\ IsParticipant(a, e) =>
                  /\ first.status = 400
                  /\ first.key = "detail"
                  /\ first.text = DuplicateText
                  /\ first.activities = activities

\* A signup repeated by an email that joined the activity by a request (it
\* is not the seed position of the email) has just been refused.
C6_Witness ==
    /\ last.op = "signup"
    /\ last.status = 400
    /\ last.text = DuplicateText
    /\ last.email = NewStudent
    /\ IsParticipant(last.activity_name, last.email)

----------------------------------------------------------------------------
(* C7 *)

\* C7: for every catalog activity A and email e, in any reachable state
\* where signup(A, e) succeeds, remove(A, e) right after it succeeds too and
\* gives back the catalog of before the signup: A's list is the same
\* sequence as before, without e, and every other activity is unchanged.
C7_RoundTrip ==
    \A a \in CatalogNames, e \in CheckedEmails :
        LET s == signup_for_activity(activities, a, e)
            r == remove_from_activity(s.activities, a, e)
        IN  s.status = 200 =>
                /\ r.status = 200
                /\ r.activities[a].participants = activities[a].participants
                /\ \A i \in 1..Len(r.activities[a].participants) :
                      r.activities[a].participants[i] # e
                /\ \A n \in CatalogNames \ { a } : r.activities[n] = activities[n]
                /\ DOMAIN r.activities = CatalogNames

\* A signup has just succeeded on a list that held other emails, and the
\* remove that undoes it is the next request that can be served.
C7_Witness ==
    /\ last.op = "signup"
    /\ last.status = 200
    /\ Len(activities[last.activity_name].participants) >= 3
    /\ remove_from_activity(activities, last.activity_name, last.email).status = 200

----------------------------------------------------------------------------
(* C8 *)

\* The answer the documented order of checks gives to signup(a, e): unknown
\* activity, duplicate signup, enrollment limit, category conflict.
\* enrolled is the set of activities e is a participant of.
ExpectedSignupAnswer(a, enrolled) ==
    IF a \notin CatalogNames THEN "not found"
    ELSE IF a \in enrolled THEN "duplicate"
    ELSE IF Cardinality(enrolled) >= 3 THEN "limit"
    ELSE IF \E b \in enrolled :
               activity_categories[b] = activity_categories[a] THEN "category"
    ELSE "ok"

AnswerOf(r) ==
    IF r.status = 404 /\ r.text = NotFoundText THEN "not found"
    ELSE IF r.status = 400 /\ r.text = DuplicateText THEN "duplicate"
    ELSE IF r.status = 400 /\ r.text = LimitText THEN "limit"
    ELSE IF r.status = 400 /\ IsCategoryConflictText(r.text) THEN "category"
    ELSE IF r.status = 200 THEN "ok"
    ELSE "other"

\* C8: an email enrolled in 3 activities that signs up for a fourth catalog
\* activity is answered 400 with the enrollment-limit message, whatever the
\* category of the fourth; and signup answers with the first failing check
\* in the order unknown activity, duplicate, enrollment limit, category.
C8_LimitBeforeCategory ==
    \A e \in CheckedEmails :
        LET enrolled == EnrolledIn(e)
        IN  \A a \in CatalogNames \cup { UnknownActivity } :
                LET r == signup_for_activity(activities, a, e)
                IN  /\ AnswerOf(r) = ExpectedSignupAnswer(a, enrolled)
                    /\ ( /\ a \in CatalogNames \ enrolled
                         /\ Cardinality(enrolled) = 3 )
                       => r.status = 400 /\ r.text = LimitText

\* An email enrolled in 3 activities has just been refused, with the limit
\* message, a fourth whose category is the category of one of the three.
C8_Witness ==
    /\ last.op = "signup"
    /\ last.status = 400
    /\ last.text = LimitText
    /\ Cardinality(EnrolledIn(last.email)) = 3
    /\ last.activity_name \in CatalogNames \ EnrolledIn(last.email)
    /\ \E b \in EnrolledIn(last.email) :
          activity_categories[b] = activity_categories[last.activity_name]

----------------------------------------------------------------------------
(* C9 *)

\* C9: for a name that is no catalog key and any email, signup and remove
\* are both answered 404 "Activity not found" and leave the catalog, its
\* keys included, as it was.
C9_UnknownActivity ==
    \A e \in CheckedEmails :
        LET s == signup_for_activity(activities, UnknownActivity, e)
            r == remove_from_activity(activities, UnknownActivity, e)
        IN  /\ UnknownActivity \notin CatalogNames
            /\ s.status = 404 /\ s.key = "detail" /\ s.text = NotFoundText
            /\ r.status = 404 /\ r.key = "detail" /\ r.text = NotFoundText
            /\ s.activities = activities
            /\ r.activities = activities
            /\ DOMAIN s.activities = DOMAIN SeedActivities
            /\ DOMAIN r.activities = DOMAIN SeedActivities

\* A request naming the unknown activity has just been answered 404 in a
\* catalog that requests have changed.
C9_Witness ==
    /\ last.activity_name = UnknownActivity
    /\ last.op = "remove"
    /\ last.status = 404
    /\ activities # SeedActivities

----------------------------------------------------------------------------
(* C10 *)

\* C10: for every catalog activity A and email e not in A's participants,
\* remove(A, e) is answered 400 "Student is not signed up for this activity"
\* and leaves the whole catalog unchanged, also when e is enrolled in other
\* activities.
C10_RemoveNonParticipant ==
    \A a \in CatalogNames, e \in CheckedEmails :
        ~IsParticipant(a, e) =>
            LET r == remove_from_activity(activities, a, e)
            IN  /\ r.status = 400
                /\ r.key = "detail"
                /\ r.text = NotSignedUpText
                /\ r.activities = activities

\* An email enrolled in other activities has just been refused the removal
\* from an activity it is not in.
C10_Witness ==
    /\ last.op = "remove"
    /\ last.status = 400
    /\ last.text = NotSignedUpText
    /\ last.activity_name \in CatalogNames \ EnrolledIn(last.email)
    /\ Cardinality(EnrolledIn(last.email)) >= 2

----------------------------------------------------------------------------
(* C11 *)

\* C11: a successful signup(A, e) makes A's participant list the previous
\* list with e appended at the end, and leaves the participant lists of all
\* other activities and the description, schedule and max_participants of
\* every activity unchanged.
C11_SignupEffect ==
    \A a \in CatalogNames, e \in CheckedEmails :
        LET s == signup_for_activity(activities, a, e)
            old == activities[a].participants
            new == s.activities[a].participants
        IN  s.status = 200 =>
                /\ Len(new) = Len(old) + 1
                /\ new[Len(new)] = e
                /\ \A i \in 1..Len(old) : new[i] = old[i]
                /\ DOMAIN s.activities = CatalogNames
                /\ \A n \in CatalogNames \ { a } :
                      s.activities[n].participants = activities[n].participants
                /\ \A n \in CatalogNames :
                      /\ s.activities[n].description = activities[n].description
                      /\ s.activities[n].schedule = activities[n].schedule
                      /\ s.activities[n].max_participants = activities[n].max_participants

\* The new student has just been signed up for an activity that has its two
\* seed participants: the list is the seed list followed by the new email.
C11_Witness ==
    /\ last.op = "signup"
    /\ last.status = 200
    /\ last.email = NewStudent
    /\ last.activity_name \in CatalogNames
    /\ activities[last.activity_name].participants =
          SeedActivities[last.activity_name].participants \o << NewStudent >>
    /\ Len(SeedActivities[last.activity_name].participants) = 2

----------------------------------------------------------------------------
(* C12 *)

\* C12: after a successful remove(A, e), e is not in A's participants, the
\* remaining participants of A are the previous ones in the same relative
\* order, and all other activities are unchanged, those e is enrolled in
\* included.
C12_RemoveEffect ==
    \A a \in CatalogNames, e \in CheckedEmails :
        LET r == remove_from_activity(activities, a, e)
            old == activities[a].participants
            new == r.activities[a].participants
        IN  r.status = 200 =>
                /\ \A i \in 1..Len(new) : new[i] # e
                /\ new = SelectSeq(old, LAMBDA x : x # e)
                /\ DOMAIN r.activities = CatalogNames
                /\ \A n \in CatalogNames \ { a } : r.activities[n] = activities[n]
                /\ r.activities[a].description = activities[a].description
                /\ r.activities[a].schedule = activities[a].schedule
                /\ r.activities[a].max_participants = activities[a].max_participants

\* michael has just been removed from Chess Club, which leaves daniel and
\* the new student behind, while michael stays enrolled in another activity.
C12_Witness ==
    /\ last.op = "remove"
    /\ last.status = 200
    /\ last.email = "michael@mergington.edu"
    /\ last.activity_name = "Chess Club"
    /\ activities["Chess Club"].participants =
          << "daniel@mergington.edu", NewStudent >>
    /\ EnrolledIn("michael@mergington.edu") # {}

----------------------------------------------------------------------------
(* C14 *)

\* Position of name n in the catalog's iteration order.
CatalogIndex(n) == CHOOSE i \in 1..Len(CatalogOrder) : CatalogOrder[i] = n

\* C14: when signup(A, e) fails on the one-activity-per-category rule, the
\* detail names the first activity, in catalog iteration order, among those
\* e is enrolled in whose category is A's category, and names that category.
C14_CategoryConflictReport ==
    \A e \in CheckedEmails :
        LET enrolled == EnrolledIn(e)
        IN  \A a \in CatalogNames :
                LET r == signup_for_activity(activities, a, e)
                    same == { b \in enrolled :
                                activity_categories[b] = activity_categories[a] }
                IN  ( /\ r.status = 400
                      /\ r.text # DuplicateText
                      /\ r.text # LimitText )
                    => /\ IsCategoryConflictText(r.text)
                       /\ r.text[2] \in same
                       /\ \A b \in same : CatalogIndex(r.text[2]) <= CatalogIndex(b)
                       /\ r.text[4] = activity_categories[a]

\* The new student, in Chess Club and in an activity of another category,
\* has just been refused Soccer Team with a detail naming Chess Club and
\* Sports.
C14_Witness ==
    /\ last.op = "signup"
    /\ last.status = 400
    /\ last.email = NewStudent
    /\ last.activity_name = "Soccer Team"
    /\ IsCategoryConflictText(last.text)
    /\ last.text[2] = "Chess Club"
    /\ last.text[4] = "Sports"
    /\ Cardinality(EnrolledIn(NewStudent)) = 2

----------------------------------------------------------------------------
(* C16 *)

DocumentedStatus == { 200, 400, 404 }

\* C16: the set of catalog names is the seed set, every catalog name is a
\* key of activity_categories, and every signup and remove, served one at
\* a time, is answered 200, 400 or 404 (no category lookup misses its key).
C16_CatalogShape ==
    /\ CatalogNames = DOMAIN SeedActivities
    /\ CatalogNames \subseteq DOMAIN activity_categories
    /\ last.op # "none" => last.status \in DocumentedStatus
    /\ \A a \in CatalogNames \cup { UnknownActivity }, e \in CheckedEmails :
          /\ signup_for_activity(activities, a, e).status \in DocumentedStatus
          /\ remove_from_activity(activities, a, e).status \in DocumentedStatus

\* A signup that looked up the category of the target and of two enrolled
\* activities has just succeeded.
C16_Witness ==
    /\ last.op = "signup"
    /\ last.status = 200
    /\ Cardinality(EnrolledIn(last.email)) = 3
    /\ activities # SeedActivities

----------------------------------------------------------------------------
(* C17 *)

\* C17: remove(A, e) succeeds for every e in A's participants whatever else
\* e is enrolled in; and once an email enrolled in 3 activities has removed
\* one of them, its signup to any activity it is not in whose category is
\* none of the categories of its two remaining activities succeeds.
C17_WithdrawalNeverBlocked ==
    \A e \in CheckedEmails :
        LET enrolled == EnrolledIn(e)
        IN  \A a \in enrolled :
                LET r == remove_from_activity(activities, a, e)
                    remaining == enrolled \ { a }
                IN  /\ r.status = 200
                    /\ Cardinality(enrolled) = 3 =>
                          \A b \in CatalogNames \ remaining :
                              (\A c \in remaining :
                                  activity_categories[c] # activity_categories[b])
                              => signup_for_activity(r.activities, b, e).status = 200

\* An email that was enrolled in 3 activities has just removed one of them
\* and can sign up for an activity of a category it no longer has.
C17_Witness ==
    /\ last.op = "remove"
    /\ last.status = 200
    /\ Cardinality(EnrolledIn(last.email)) = 2
    /\ \E b \in CatalogNames \ EnrolledIn(last.email) :
          /\ b # last.activity_name
          /\ signup_for_activity(activities, b, last.email).status = 200

----------------------------------------------------------------------------
(* C15 *)

NoCacheHeaders ==
    { << "Cache-Control", "no-cache, no-store, must-revalidate" >>,
      << "Pragma", "no-cache" >>,
      << "Expires", "0" >> }

\* C15: every response to a request whose path starts with /activities or
\* /static/ carries Cache-Control: no-cache, no-store, must-revalidate,
\* Pragma: no-cache and Expires: 0.
C15_NoCaching ==
    ( /\ last.op # "none"
      /\ last.path[1] \in { "activities", "static" } )
    => NoCacheHeaders \subseteq last.headers

----------------------------------------------------------------------------
(* C13 *)

\* How often e occurs in the participant list of n.
Occurrences(n, e) ==
    Cardinality({ i \in 1..Len(activities[n].participants) :
                     activities[n].participants[i] = e })

\* Thread t runs its append step (line 153) in this step.
Appends(t) == reqs[t].pc = "append" /\ reqs'[t].pc = "idle"

\* C13: two signup(A, e) requests that run concurrently can both pass the
\* membership check of line 131 and both append: nothing is checked again
\* at line 153.  A request that is past its checks when e is already in
\* A's participants still appends e, so that e occurs (at least) twice, and
\* answers 200.  (The state with e twice in A and both requests answered
\* 200 is C13_Witness.)
C13_DuplicateAppendRace ==
    [][ \A t \in Threads :
          ( /\ Appends(t)
            /\ IsParticipant(reqs[t].activity_name, reqs[t].email) )
          => /\ reqs'[t].status = 200
             /\ activities'[reqs[t].activity_name].participants =
                   Append(activities[reqs[t].activity_name].participants,
                          reqs[t].email)
             /\ Occurrences(reqs[t].activity_name, reqs[t].email)' >= 2 ]_vars

\* Both threads have answered 200 to a signup for the same activity and
\* email, and the email is twice in the activity's participants.
C13_Witness ==
    /\ \A t \in Threads :
          /\ reqs[t].op = "signup"
          /\ reqs[t].pc = "idle"
          /\ reqs[t].status = 200
    /\ reqs["t1"].activity_name = reqs["t2"].activity_name
    /\ reqs["t1"].email = reqs["t2"].email
    /\ Occurrences(reqs["t1"].activity_name, reqs["t1"].email) = 2

----------------------------------------------------------------------------
(* C18 *)

\* The enrollments of e break the limit or the one-per-category rule.
BreaksEnrollmentRules(e) ==
    \/ Cardinality(EnrolledIn(e)) > 3
    \/ \E a, b \in EnrolledIn(e) :
          a # b /\ activity_categories[a] = activity_categories[b]

\* signup(a, e) would be refused now by the limit or the category check.
WouldBeRefused(a, e) ==
    \/ Cardinality(EnrolledIn(e)) >= 3
    \/ \E b \in EnrolledIn(e) :
          b # a /\ activity_categories[b] = activity_categories[a]

\* C18: two signup requests of one email for two different activities that
\* run concurrently can both pass the limit and category checks on the same
\* stale enrollments and both append.  A request that is past its scan
\* (line 135) appends (line 153) and answers 200 also when the enrollments
\* have changed since and the checks would now refuse it, which leaves the
\* email in 4 activities or in two activities of one category.  (Such a
\* state, reached by requests for two different activities, is
\* C18_Witness.)
C18_CrossActivityRace ==
    [][ \A t \in Threads :
          ( /\ Appends(t)
            /\ ~IsParticipant(reqs[t].activity_name, reqs[t].email)
            /\ WouldBeRefused(reqs[t].activity_name, reqs[t].email) )
          => /\ reqs'[t].status = 200
             /\ IsParticipant(reqs[t].activity_name, reqs[t].email)'
             /\ BreaksEnrollmentRules(reqs[t].email)' ]_vars

\* Both threads have answered 200 to signups of the same email for two
\* different activities, no list holds the email twice, and the email is
\* in 4 activities, two of them of the same category.
C18_Witness ==
    /\ \A t \in Threads :
          /\ reqs[t].op = "signup"
          /\ reqs[t].pc = "idle"
          /\ reqs[t].status = 200
    /\ reqs["t1"].activity_name # reqs["t2"].activity_name
    /\ reqs["t1"].email = reqs["t2"].email
    /\ \A n \in CatalogNames : Occurrences(n, reqs["t1"].email) <= 1
    /\ Cardinality(EnrolledIn(reqs["t1"].email)) = 4
    /\ BreaksEnrollmentRules(reqs["t1"].email)

----------------------------------------------------------------------------
(* C19 *)

\* Thread t runs its list.remove step (line 172) in this step.
Deletes(t) == reqs[t].pc = "remove" /\ reqs'[t].pc = "idle"

\* C19: when remove requests for the same enrolled email run concurrently,
\* every request ends in 200, 400 or 404, and the email is removed exactly
\* once: the step of line 172 answers a documented status, takes one
\* occurrence of the email out of the list when it answers 200 and leaves
\* the catalog alone otherwise.
C19_ConcurrentRemoves ==
    [][ \A t \in Threads :
          Deletes(t) =>
             /\ reqs'[t].status \in DocumentedStatus
             /\ IF reqs'[t].status = 200
                THEN Occurrences(reqs[t].activity_name, reqs[t].email)' =
                        Occurrences(reqs[t].activity_name, reqs[t].email) - 1
                ELSE activities' = activities ]_vars

====
